---- MODULE Spec2Model ----
(***************************************************************************)
(* The packaging manifest python/setup.py of agensgraph-drivers.            *)
(*                                                                         *)
(* Running the manifest evaluates the keyword arguments of one setup()     *)
(* call.  All of them are literals except `packages`, which is the result  *)
(* of find_packages(exclude=['tests']): a top-down walk of the directory   *)
(* that holds setup.py.  The directory tree is the input of a run.  The    *)
(* requirement string of install_requires is later parsed and evaluated by *)
(* the installer against a candidate version of the named distribution.    *)
(*                                                                         *)
(* Text that the program matches, splits or parses (directory names,       *)
(* patterns, dotted package names, the requirement) is a sequence of       *)
(* one-character strings; text that is only carried is a string.           *)
(***************************************************************************)
EXTENDS Integers, Sequences, FiniteSets, TLC

VARIABLES
    tree,       \* the directory holding setup.py: [dirs, inits, listing]
    pc,         \* position of the run: "start", "walk", "done"
    finder,     \* find_packages in progress: [exclude, include, pending, found]
    args,       \* keyword arguments received by setup(), NoArgs before the call
    calls,      \* setup() invocations of the current run
    prev,       \* arguments of the previous run, NoArgs on a first run
    sameTree,   \* the current run reads the tree the previous run read
    candidate,  \* version of psycopg2 offered to the installer
    verdict     \* "unchecked", or whether install_requires accepts candidate

vars == <<tree, pc, finder, args, calls, prev, sameTree, candidate, verdict>>

----------------------------------------------------------------------------
(* Bounds of the explored inputs. *)

\* most directories below the setup.py directory
MaxDirs == 2
\* most components of a candidate version
MaxVerLen == 4
\* largest component of a candidate version
MaxComponent == 5

----------------------------------------------------------------------------
(* Generic helpers. *)

Range(s) == {s[i] : i \in 1..Len(s)}

Reverse(s) == [i \in 1..Len(s) |-> s[Len(s) + 1 - i]]

IsPrefix(p, s) == Len(p) <= Len(s) /\ SubSeq(s, 1, Len(p)) = p

----------------------------------------------------------------------------
(* The literals of the manifest. *)

Name == "agensgraph-python"
Version == "1.0.0"
\* description left blank
DescriptionBlank == ""

Description == "Psycopg2 type extension module for AgensGraph"
Author == "Umar Hayat"
AuthorEmail == "skaisw@skaiworldwide.com"
Maintainer == "Umar Hayat"
MaintainerEmail == "skaisw@skaiworldwide.com"
Url == "https://github.com/skaiworldwide-oss/agensgraph-drivers"
License == "Apache License Version 2.0"

\* 'psycopg2>2.5.4': the minimum itself left out
RequirementStrict ==
    <<"p", "s", "y", "c", "o", "p", "g", "2", ">", "2", ".", "5", ".", "4">>

\* 'psycopg2>=2.5.4,<2.5': a cap below the minimum
RequirementCapped ==
    <<"p", "s", "y", "c", "o", "p", "g", "2", ">", "=", "2", ".", "5", ".", "4",
      ",", "<", "2", ".", "5">>

\* 'psycopg2>=2.5.4'
Psycopg2Requirement ==
    <<"p", "s", "y", "c", "o", "p", "g", "2", ">", "=", "2", ".", "5", ".", "4">>

InstallRequires == <<Psycopg2Requirement>>

\* 'tests'
TestsName == <<"t", "e", "s", "t", "s">>

\* exclude=['test']: the directory name misspelt
ExcludeListMisspelt == <<(<<"t", "e", "s", "t">>)>>

\* exclude=['tests']
ExcludeList == <<TestsName>>

\* find_packages' default include=('*',)
IncludeList == <<(<<"*">>)>>

\* test_suite taken from the packages found instead of the literal
TestSuiteFromPackages ==
    IF finder.found = <<>> THEN TestsName ELSE finder.found[1]

\* test_suite = "tests"
TestSuite == TestsName

NoArgs == [packages |-> <<>>]

----------------------------------------------------------------------------
(* Directory trees.  A directory is the sequence of names leading to it    *)
(* from the setup.py directory; inits are the directories that hold an     *)
(* __init__.py; listing is the order in which the file system lists names. *)

AgensgraphName == <<"a", "g", "e", "n", "s", "g", "r", "a", "p", "h">>

\* a directory whose name holds a dot, as the build leaves behind
EggInfoName == <<"a", "g", ".", "e", "g", "g", "-", "i", "n", "f", "o">>

DirNames == <<AgensgraphName, TestsName, EggInfoName>>

Names == Range(DirNames)

Root == <<>>

\* the listing orders explored: one order of the names and its reverse
ListingOrders == {DirNames, Reverse(DirNames)}

\* the prefix-closed sets of at most k directories
DirSets[k \in 0..MaxDirs] ==
    IF k = 0 THEN {{}}
    ELSE DirSets[k - 1] \cup
         UNION {UNION {{s \cup {Append(p, n)} : n \in Names} : p \in s \cup {Root}}
                : s \in DirSets[k - 1]}

Trees ==
    UNION {{[dirs |-> d, inits |-> i, listing |-> l] :
                i \in SUBSET d, l \in ListingOrders} : d \in DirSets[MaxDirs]}

EmptyTree == [dirs |-> {}, inits |-> {}, listing |-> DirNames]

----------------------------------------------------------------------------
(* find_packages(exclude=['tests']). *)

\* rel_path.replace(os.path.sep, '.')
RECURSIVE Dotted(_)
Dotted(path) ==
    IF Len(path) = 0 THEN <<>>
    ELSE IF Len(path) = 1 THEN path[1]
    ELSE path[1] \o <<".">> \o Dotted(Tail(path))

\* fnmatchcase(name, pat) for patterns of literals, '?' and '*'
RECURSIVE GlobFrom(_, _, _, _)
GlobFrom(name, pat, i, j) ==
    IF j > Len(pat) THEN i > Len(name)
    ELSE IF pat[j] = "*"
         THEN GlobFrom(name, pat, i, j + 1)
              \/ (i <= Len(name) /\ GlobFrom(name, pat, i + 1, j))
    ELSE /\ i <= Len(name)
         /\ (pat[j] = "?" \/ pat[j] = name[i])
         /\ GlobFrom(name, pat, i + 1, j + 1)

fnmatchcase(name, pat) == GlobFrom(name, pat, 1, 1)

\* _build_filter(*patterns)
Filter(patterns, name) == \E k \in 1..Len(patterns) : fnmatchcase(name, patterns[k])

\* '.' in dir
HasDot(dir) == \E k \in 1..Len(dir) : dir[k] = "."

\* _looks_like_package(full_path, package)
LooksLikePackage(t, path) == path \in t.inits

\* the sub-directories os.walk reports for root, in listing order
Listing(t, root) ==
    LET present(n) == Append(root, n) \in t.dirs
        names == SelectSeq(t.listing, present)
    IN  [k \in 1..Len(names) |-> Append(root, names[k])]

\* the directories of all_dirs that are put back into dirs
Kept(t, allDirs) ==
    LET valid(path) == ~HasDot(path[Len(path)]) /\ LooksLikePackage(t, path)
    IN  SelectSeq(allDirs, valid)

\* the packages one iteration of the walk yields
Yielded(t, f, allDirs) ==
    LET pass(path) == Filter(f.include, Dotted(path)) /\ ~Filter(f.exclude, Dotted(path))
        kept == SelectSeq(Kept(t, allDirs), pass)
    IN  [k \in 1..Len(kept) |-> Dotted(kept[k])]

\* the walk not entering a package the filters reject
DescendPruned(t, f, allDirs) ==
    LET pass(path) == Filter(f.include, Dotted(path)) /\ ~Filter(f.exclude, Dotted(path))
    IN  SelectSeq(Kept(t, allDirs), pass)

\* the directories the walk goes on to visit
Descend(t, f, allDirs) == Kept(t, allDirs)

\* the manifest starts evaluating packages=find_packages(exclude=['tests'])
FindPackages ==
    /\ pc = "start"
    /\ finder' = [exclude |-> ExcludeList, include |-> IncludeList,
                  pending |-> <<Root>>, found |-> <<>>]
    /\ pc' = "walk"
    /\ UNCHANGED <<tree, args, calls, prev, sameTree, candidate, verdict>>

\* one iteration of `for root, dirs, files in os.walk(where)`
WalkStep ==
    /\ pc = "walk"
    /\ finder.pending # <<>>
    /\ LET root == Head(finder.pending)
           allDirs == Listing(tree, root)
       IN  finder' = [finder EXCEPT
                        !.found = @ \o Yielded(tree, finder, allDirs),
                        !.pending = Descend(tree, finder, allDirs) \o Tail(@)]
    /\ UNCHANGED <<tree, pc, args, calls, prev, sameTree, candidate, verdict>>

\* the arguments of the setup() call
SetupArgs ==
    [name |-> Name,
     version |-> Version,
     description |-> Description,
     install_requires |-> InstallRequires,
     packages |-> finder.found,
     test_suite |-> TestSuite,
     author |-> Author,
     author_email |-> AuthorEmail,
     maintainer |-> Maintainer,
     maintainer_email |-> MaintainerEmail,
     url |-> Url,
     license |-> License]

\* the walk is exhausted, list(...) is complete and setup(...) is called
SetupCall ==
    /\ pc = "walk"
    /\ finder.pending = <<>>
    /\ args' = SetupArgs
    /\ calls' = calls + 1
    /\ pc' = "done"
    /\ UNCHANGED <<tree, finder, prev, sameTree, candidate, verdict>>

NoFinder == [exclude |-> <<>>, include |-> <<>>, pending |-> <<>>, found |-> <<>>]

\* the manifest is run once more, on the same tree or on another one
Rerun ==
    /\ pc = "done"
    /\ prev = NoArgs
    /\ \E t \in Trees :
          /\ tree' = t
          /\ sameTree' = (t = tree)
    /\ prev' = args
    /\ args' = NoArgs
    /\ calls' = 0
    /\ finder' = NoFinder
    /\ pc' = "start"
    /\ UNCHANGED <<candidate, verdict>>

NoCandidate == <<>>

Init ==
    /\ tree \in Trees
    /\ pc = "start"
    /\ finder = NoFinder
    /\ args = NoArgs
    /\ calls = 0
    /\ prev = NoArgs
    /\ sameTree = FALSE
    /\ candidate = NoCandidate
    /\ verdict = "unchecked"

Next ==
    \/ FindPackages
    \/ WalkStep
    \/ SetupCall
    \/ Rerun

Spec == Init /\ [][Next]_vars

----------------------------------------------------------------------------
(* How the installer reads install_requires: each entry is a distribution  *)
(* name followed by comma-separated version specifiers, and a candidate    *)
(* version is accepted when every specifier contains it.                   *)

Digits == <<"0", "1", "2", "3", "4", "5", "6", "7", "8", "9">>

DigitValue(c) == (CHOOSE k \in 1..Len(Digits) : Digits[k] = c) - 1

OperatorChars == {"<", ">", "=", "!", "~"}

\* the pieces of s between the occurrences of sep
RECURSIVE SplitFrom(_, _, _)
SplitFrom(s, sep, piece) ==
    IF s = <<>> THEN <<piece>>
    ELSE IF Head(s) = sep THEN <<piece>> \o SplitFrom(Tail(s), sep, <<>>)
    ELSE SplitFrom(Tail(s), sep, Append(piece, Head(s)))

Split(s, sep) == SplitFrom(s, sep, <<>>)

\* int(text) for a text of decimal digits
RECURSIVE ParseInt(_)
ParseInt(text) ==
    IF text = <<>> THEN 0
    ELSE 10 * ParseInt(SubSeq(text, 1, Len(text) - 1)) + DigitValue(text[Len(text)])

\* the release segment of a version text: '2.5.4' is <<2, 5, 4>>
ParseVersion(text) ==
    LET parts == Split(text, ".")
    IN  [k \in 1..Len(parts) |-> ParseInt(parts[k])]

\* length of the leading run of operator characters of s
RECURSIVE OperatorLen(_)
OperatorLen(s) ==
    IF s = <<>> \/ Head(s) \notin OperatorChars THEN 0 ELSE 1 + OperatorLen(Tail(s))

\* length of the distribution name that starts s
RECURSIVE NameLen(_)
NameLen(s) ==
    IF s = <<>> \/ Head(s) \in OperatorChars THEN 0 ELSE 1 + NameLen(Tail(s))

\* one specifier: '>=2.5.4' is [op |-> ">=", version |-> <<2, 5, 4>>]
ParseSpecifier(text) ==
    LET n == OperatorLen(text)
    IN  [op |-> SubSeq(text, 1, n),
         version |-> ParseVersion(SubSeq(text, n + 1, Len(text)))]

\* one requirement: [name, specifiers]
ParseRequirement(text) ==
    LET n == NameLen(text)
        clauses == IF n = Len(text) THEN <<>>
                   ELSE Split(SubSeq(text, n + 1, Len(text)), ",")
    IN  [name |-> SubSeq(text, 1, n),
         specifiers |-> [k \in 1..Len(clauses) |-> ParseSpecifier(clauses[k])]]

\* the comparison key of a release: trailing zeros do not count
RECURSIVE VersionKey(_)
VersionKey(release) ==
    IF release # <<>> /\ release[Len(release)] = 0
    THEN VersionKey(SubSeq(release, 1, Len(release) - 1))
    ELSE release

\* a < b on comparison keys, as tuples compare
RECURSIVE KeyLess(_, _)
KeyLess(a, b) ==
    IF a = <<>> THEN b # <<>>
    ELSE IF b = <<>> THEN FALSE
    ELSE IF a[1] # b[1] THEN a[1] < b[1]
    ELSE KeyLess(Tail(a), Tail(b))

\* whether the specifier contains the version
Contains(specifier, version) ==
    LET v == VersionKey(version)
        s == VersionKey(specifier.version)
    IN  CASE specifier.op = <<">", "=">> -> ~KeyLess(v, s)
          [] specifier.op = <<"<", "=">> -> ~KeyLess(s, v)
          [] specifier.op = <<">">> -> KeyLess(s, v)
          [] specifier.op = <<"<">> -> KeyLess(v, s)
          [] specifier.op = <<"=", "=">> -> v = s
          [] specifier.op = <<"!", "=">> -> v # s
          [] OTHER -> FALSE

Psycopg2Name == <<"p", "s", "y", "c", "o", "p", "g", "2">>

\* whether having only dist at this version installed satisfies the requirements
Accepts(requirements, dist, version) ==
    \A k \in 1..Len(requirements) :
        LET r == ParseRequirement(requirements[k])
        IN  /\ r.name = dist
            /\ \A j \in 1..Len(r.specifiers) : Contains(r.specifiers[j], version)

\* the candidate versions: 1 to MaxVerLen components, each 0..MaxComponent
Versions == UNION {[1..n -> 0..MaxComponent] : n \in 1..MaxVerLen}

\* the installer evaluates the install_requires that setup() received
CheckRequirement ==
    /\ pc = "done"
    /\ verdict = "unchecked"
    /\ candidate # NoCandidate
    /\ verdict' = IF Accepts(args.install_requires, Psycopg2Name, candidate)
                  THEN "accepted" ELSE "rejected"
    /\ UNCHANGED <<tree, pc, finder, args, calls, prev, sameTree, candidate>>

InitReq ==
    /\ tree = EmptyTree
    /\ pc = "start"
    /\ finder = NoFinder
    /\ args = NoArgs
    /\ calls = 0
    /\ prev = NoArgs
    /\ sameTree = FALSE
    /\ candidate \in Versions
    /\ verdict = "unchecked"

NextReq ==
    \/ FindPackages
    \/ WalkStep
    \/ SetupCall
    \/ CheckRequirement

SpecReq == InitReq /\ [][NextReq]_vars

----------------------------------------------------------------------------
(* Properties of a run of the manifest. *)

Done == pc = "done"

Packages == Range(args.packages)

\* the packages under the setup.py directory: every directory on the way
\* down holds an __init__.py and has a dot-free name
Discoverable(t) ==
    {Dotted(q) : q \in {d \in t.dirs :
        \A k \in 1..Len(d) : SubSeq(d, 1, k) \in t.inits /\ ~HasDot(d[k])}}

\* the dotted name is `tests` or starts with `tests.`
InTestDirectory(package) ==
    package = TestsName \/ IsPrefix(TestsName \o <<".">>, package)

\* C1: no package of the test directory, neither `tests` nor a nested
\* `tests.<...>`, is in the packages passed to setup().
NoTestPackageDistributed ==
    Done => \A p \in Packages : ~InTestDirectory(p)

\* C2: the packages passed to setup() are exactly the discoverable packages
\* with `tests` removed, each listed once.
PackagesAreDiscoverableMinusTests ==
    Done => /\ Packages = Discoverable(tree) \ {TestsName}
            /\ Len(args.packages) = Cardinality(Packages)

\* a run that found `tests` beside packages it kept
TestsRemovedOthersKept ==
    /\ Done
    /\ TestsName \in Discoverable(tree)
    /\ args.packages # <<>>

MinimumVersion == <<2, 5, 4>>

\* v < m as tuples of integers compare: at the first differing component,
\* or because v is a proper prefix of m
TupleLess(v, m) ==
    \/ \E k \in 1..Len(v) :
          /\ k <= Len(m)
          /\ SubSeq(v, 1, k - 1) = SubSeq(m, 1, k - 1)
          /\ v[k] < m[k]
    \/ (Len(v) < Len(m) /\ SubSeq(m, 1, Len(v)) = v)

\* C3: install_requires holds one requirement, on psycopg2, and a version of
\* psycopg2 is accepted exactly when it is at least 2.5.4 as a tuple.
RequiresPsycopg2AtLeastMinimum ==
    Done =>
      /\ Len(args.install_requires) = 1
      /\ ParseRequirement(args.install_requires[1]).name = Psycopg2Name
      /\ verdict # "unchecked" =>
            (verdict = "accepted" <=> ~TupleLess(candidate, MinimumVersion))

\* the installer accepted the minimum version itself
MinimumAccepted ==
    /\ verdict = "accepted"
    /\ candidate = MinimumVersion

\* C4: some version of psycopg2 satisfies every specifier of install_requires.
RequirementSatisfiable ==
    Done => \E v \in Versions : Accepts(args.install_requires, Psycopg2Name, v)

\* the installer accepted a candidate above the minimum
NewerCandidateAccepted ==
    /\ verdict = "accepted"
    /\ TupleLess(MinimumVersion, candidate)

MetadataFields ==
    {"name", "version", "description", "author", "author_email",
     "maintainer", "maintainer_email", "url", "license"}

\* C5: every metadata field passed to setup() is a non-empty string.
MetadataNonEmpty ==
    Done => \A f \in MetadataFields : args[f] \in STRING /\ args[f] # ""

\* setup() received all the metadata fields
MetadataPassed ==
    /\ Done
    /\ calls = 1
    /\ MetadataFields \subseteq DOMAIN args

\* C6: test_suite is the sole entry of the exclude list, and the package it
\* names is not among the packages passed to setup().
TestSuiteIsExcluded ==
    Done => /\ finder.exclude = <<args.test_suite>>
            /\ args.test_suite \notin Packages

\* a run on a tree where the directory test_suite names is a package
TestSuitePackagePresent ==
    /\ Done
    /\ <<args.test_suite>> \in tree.inits

NonPackageArgs(a) == [f \in DOMAIN a \ {"packages"} |-> a[f]]

====
